---- MODULE Spec2Model ----
(***************************************************************************)
(* Model of sjb.common.base: Item (write-once oid) and ItemList (ordered   *)
(* collection with oid assignment, oid set and modification tracking),     *)
(* and of the persistence form the list is stored in and rebuilt from.     *)
(*                                                                         *)
(* Python values that are "None or an int" are modelled as sequences:      *)
(* <<>> is None and <<n>> is the integer n.                                *)
(***************************************************************************)
EXTENDS Integers, Sequences, FiniteSets, TLC

\* ---------------------------------------------------------------- bounds
\* Number of Item objects ever constructed.
MaxItems == 2
\* Smallest and largest oid a caller hands to Item(oid=...) or the setter
\* (the smallest is -MinOidAbs).
MinOidAbs == 1
MaxOid == 1
\* Cap on _last_item_id for fresh adds (Python ints are unbounded).
MaxLastId == 2
\* Largest value time.time() returns.
MaxClock == 1

\* ---------------------------------------------------------------- values
None == <<>>
Int1(n) == <<n>>
IsNone(v) == v = None
Val(v) == v[1]

\* Python truthiness of an oid: None and 0 are falsy.
Truthy(v) == ~IsNone(v) /\ Val(v) # 0

OidInts == (0 - MinOidAbs)..MaxOid
OidInputs == {None} \cup {Int1(n) : n \in OidInts}
\* The oids a caller looks items up by: those, and the oids fresh adds give.
LookupOids == OidInputs \cup {Int1(n) : n \in 1..MaxLastId}
\* The version string the list is constructed with (opaque to the list).
Versions == {"0.1"}
\* The values time.time() may return.
Times == 0..MaxClock
\* The programs that use list files.
Procs == {1, 2}

Max(a, b) == IF a >= b THEN a ELSE b

VARIABLES
  oid,            \* oid[x]: the _oid field of Item object x (heap of Items)
  items,          \* ItemList._items: sequence of Item objects
  oid_set,        \* ItemList._oid_set
  last_item_id,   \* ItemList._last_item_id
  modified,       \* ItemList._modified
  modified_date,  \* ItemList._modified_date (None or a time)
  version,        \* ItemList._version
  ret,            \* the last call: operation, arguments, error, return value
  loaded,         \* the list the last call rebuilt from the persistence form
  other,          \* a second ItemList object, over the same Items
  fs,             \* the file system: the content of each list file
  proc,           \* the programs that use list files: each one's list,
                  \* its Items, the file the list came from, its position
  ever            \* every oid an Item has had while it was in the list

vars == <<oid, items, oid_set, last_item_id, modified, modified_date,
          version, ret, loaded, other, fs, proc, ever>>

Refs == 1..Len(oid)

\* The ItemList object as a record of its fields.
ThisList == [items |-> items, oid_set |-> oid_set,
             last_item_id |-> last_item_id, modified |-> modified,
             modified_date |-> modified_date, version |-> version]

\* ItemList.__init__(version, modified_date)
NewList(v, md) == [items |-> <<>>, oid_set |-> {}, last_item_id |-> 0,
                   modified |-> FALSE, modified_date |-> md, version |-> v]

\* What the last call was and how it ended: the Item passed (0 if none),
\* the error raised ("ok" if none) and the Item or number returned (0 if
\* none); seq is the list object a query returned and alias tells whether
\* that object is the list's own _items.
Call(op, x, il, err, val) ==
  [op |-> op, item |-> x, initial_load |-> il, err |-> err, val |-> val,
   seq |-> <<>>, alias |-> FALSE]

\* ------------------------------------------------------------------ Item
\* Item.oid setter: writes only while _oid is None, else ReadOnlyError.
oid_setter_always(cur, value) == [err |-> "ok", oid |-> value]
oid_setter(cur, value) ==
  IF IsNone(cur) THEN [err |-> "ok", oid |-> value]
  ELSE [err |-> "ReadOnlyError", oid |-> cur]

\* -------------------------------------------------------------- ItemList
\* ItemList._mark_modified(timestamp=None)
mark_modified_flag_only(L, now) == [L EXCEPT !.modified = TRUE]
mark_modified(L, now) ==
  [L EXCEPT !.modified = TRUE, !.modified_date = Int1(now)]

\* ItemList._get_item_index: index of the first item whose oid equals o,
\* 0 when there is none (the code raises InvalidIDError).
get_item_index_last(its, h, o) ==
  LET hits == {i \in 1..Len(its) : h[its[i]] = o}
  IN IF hits = {} THEN Len(its)
     ELSE CHOOSE i \in hits : \A j \in hits : i <= j
get_item_index(its, h, o) ==
  LET hits == {i \in 1..Len(its) : h[its[i]] = o}
  IN IF hits = {} THEN 0
     ELSE CHOOSE i \in hits : \A j \in hits : i <= j

\* list.pop(ind) leaves the other elements in order.
pop_tail(its, ind) == SubSeq(its, 1, Len(its) - 1)
pop(its, ind) == SubSeq(its, 1, ind - 1) \o SubSeq(its, ind + 1, Len(its))

\* self._last_item_id += 1
next_item_id_same(last) == last
next_item_id(last) == last + 1

\* self._last_item_id = max(item.oid, self._last_item_id)
loaded_last_id_item(o, last) == o
loaded_last_id(o, last) == Max(o, last)

\* item.oid in self._oid_set
is_duplicate_never(o, S) == FALSE
is_duplicate(o, S) == o \in S

\* self._oid_set.remove(removed.oid)
oid_set_remove_nothing(S, o) == S
oid_set_remove(S, o) == S \ {o}

\* ItemList.add_item(item, initial_load) on list L and Item heap h at time
\* now: the list and heap afterwards, and the error raised ("ok" if none).
add_item(L, h, x, initial_load, now) ==
  IF initial_load /\ ~Truthy(h[x])
    THEN [L |-> L, h |-> h, err |-> "IllegalStateError"]
  ELSE IF ~initial_load /\ Truthy(h[x])
    THEN [L |-> L, h |-> h, err |-> "IllegalStateError"]
  ELSE IF ~initial_load
    THEN LET L1 == [L EXCEPT !.last_item_id = next_item_id(@)]
             s == oid_setter(h[x], Int1(L1.last_item_id))
         IN IF s.err # "ok"
              THEN [L |-> L1, h |-> h, err |-> s.err]
              ELSE LET h1 == [h EXCEPT ![x] = s.oid]
                       L2 == mark_modified(L1, now)
                   IN [L |-> [L2 EXCEPT
                                !.oid_set = @ \cup {Val(h1[x])},
                                !.items = Append(@, x)],
                       h |-> h1, err |-> "ok"]
  ELSE IF is_duplicate(Val(h[x]), L.oid_set)
    THEN [L |-> L, h |-> h, err |-> "IllegalStateError"]
  ELSE [L |-> [L EXCEPT
                 !.last_item_id = loaded_last_id(Val(h[x]), @),
                 !.oid_set = @ \cup {Val(h[x])},
                 !.items = Append(@, x)],
        h |-> h, err |-> "ok"]

\* ItemList.remove_item(oid): the list afterwards, the error, the removed
\* Item (0 if none).
remove_item(L, h, o, now) ==
  LET ind == get_item_index(L.items, h, o)
  IN IF ind = 0
       THEN [L |-> L, err |-> "InvalidIDError", val |-> 0]
       ELSE LET removed == L.items[ind]
                L1 == [L EXCEPT !.items = pop(@, ind)]
                L2 == mark_modified(L1, now)
            IN [L |-> [L2 EXCEPT
                         !.oid_set = oid_set_remove(@, Val(h[removed]))],
                err |-> "ok", val |-> removed]

\* ItemList.get_item(oid): the error and the Item found (0 if none).
get_item_unchecked(L, h, o) ==
  LET ind == get_item_index(L.items, h, o)
  IN [err |-> "ok", val |-> IF ind = 0 THEN 0 ELSE L.items[ind]]
get_item(L, h, o) ==
  LET ind == get_item_index(L.items, h, o)
  IN IF ind = 0 THEN [err |-> "InvalidIDError", val |-> 0]
     ELSE [err |-> "ok", val |-> L.items[ind]]

\* Item._validate: the oid must be truthy and an int (every oid of the
\* model that is not None is an int).
item_validate_none_only(o) == IF IsNone(o) THEN "ValidationError" ELSE "ok"
item_validate(o) == IF ~Truthy(o) THEN "ValidationError" ELSE "ok"

\* ItemList.validate(): _validate on every item in list order; the first
\* error ends it. val is the Item that failed (0 if none).
validate(L, h) ==
  LET bad == {i \in 1..Len(L.items) : item_validate(h[L.items[i]]) # "ok"}
  IN IF bad = {} THEN [L |-> L, err |-> "ok", val |-> 0]
     ELSE [L |-> L, err |-> "ValidationError",
           val |-> L.items[CHOOSE i \in bad : \A j \in bad : i <= j]]

\* ItemList.size()
size(L) == [L |-> L, n |-> Len(L.items)]

\* ItemMatcher.matches of three matchers: one that matches every item, one
\* that matches none, one that matches the items of positive oid.
Matchers == {"all", "none", "positive"}
matches(m, o) ==
  CASE m = "all" -> TRUE
    [] m = "none" -> FALSE
    [] m = "positive" -> ~IsNone(o) /\ Val(o) > 0

\* [item for item in its if item_matcher.matches(item)]
RECURSIVE comprehension(_, _, _)
comprehension(its, h, m) ==
  IF its = <<>> THEN <<>>
  ELSE IF matches(m, h[Head(its)])
    THEN <<Head(its)>> \o comprehension(Tail(its), h, m)
    ELSE comprehension(Tail(its), h, m)

\* ItemList.query_items(item_matcher): the list afterwards and the list
\* object returned, which the comprehension builds anew.
query_items_shortcut(L, h, m) ==
  LET s == comprehension(L.items, h, m)
  IN [L |-> L, seq |-> s, alias |-> s = L.items]
query_items_marking(L, h, m) ==
  [L |-> [L EXCEPT !.modified = TRUE],
   seq |-> comprehension(L.items, h, m), alias |-> FALSE]
query_items(L, h, m) ==
  [L |-> L, seq |-> comprehension(L.items, h, m), alias |-> FALSE]

\* ---------------------------------------------------- persistence form
\* Item._to_dict of a concrete Item: the record stored for one item.
item_to_dict(o) == [oid |-> o]

\* The Item a stored record is rebuilt as: Item(oid=record.oid).
item_from_dict(rec) == rec.oid

\* ItemList.to_dict of a concrete list: version, modified_date and the
\* records of the items in list order.
to_dict(L, h) ==
  [version |-> L.version, modified_date |-> L.modified_date,
   items |-> [i \in 1..Len(L.items) |-> item_to_dict(h[L.items[i]])]]

\* The loop of from_dict: every stored record, in order, becomes a new Item
\* that is added with add_item(item, initial_load=True); the first error
\* ends the load.
RECURSIVE load_items(_, _, _)
load_items(recs, L, h) ==
  IF recs = <<>> THEN [L |-> L, h |-> h, err |-> "ok"]
  ELSE LET h1 == Append(h, item_from_dict(Head(recs)))
           r == add_item(L, h1, Len(h1), TRUE, 0)
       IN IF r.err # "ok" THEN r
          ELSE load_items(Tail(recs), r.L, r.h)

\* from_dict of a concrete list: a new list with the stored version and
\* modified_date, filled by load_items.
from_dict(d, h) == load_items(d.items, NewList(d.version, d.modified_date), h)

\* No list has been rebuilt by the last call.
NoList == [L |-> NewList("None", None), h |-> <<>>, err |-> "none"]

\* ------------------------------------------------------------ list files
\* An argument that was not passed (None) and the strings Python takes as
\* false or true in `list and listpath`, `listpath or ...`.
NoArg == "None"
TruthyStr(a) == a # NoArg /\ a # ""

\* The list names and full paths a caller passes.
ListArgs == {NoArg, "", "a"}
PathArgs == {NoArg, "", "/p"}

\* _get_default_list_file(list): the file of that name in the data
\* directory, 'cheatsheet' when no name is given.
default_list_file(list) ==
  <<"dir", IF TruthyStr(list) THEN list ELSE "cheatsheet">>

\* The file a full path names.
path_file(listpath) == <<"path", listpath>>

Files == {default_list_file(l) : l \in ListArgs}
           \cup {path_file(lp) : lp \in {q \in PathArgs : TruthyStr(q)}}

\* No file of that name exists; no file name is remembered.
NoFile == [version |-> "no file", modified_date |-> None, items |-> <<>>]
NoSource == <<"None", "None">>

\* The domain fields of a concrete Item: its text, whether it is finished.
Entry(t) == [text |-> t, finished |-> FALSE]
Texts == {"", "t"}

\* validate() of a concrete Item: the base check and the domain check that
\* the text is not empty.
entry_validate(o, e) ==
  IF item_validate(o) # "ok" THEN "ValidationError"
  ELSE IF e.text = "" THEN "ValidationError"
  ELSE "ok"

\* A list as its program holds it: the ItemList L, the Items it was built
\* with (h their oids, dom their domain fields) and source_filename.
Session(L, h, dom, src) == [L |-> L, h |-> h, dom |-> dom, src |-> src]

\* to_dict of a concrete list with its concrete items.
entry_to_dict(o, e) == [oid |-> o, text |-> e.text, finished |-> e.finished]
cs_to_dict(S) ==
  [version |-> S.L.version, modified_date |-> S.L.modified_date,
   items |-> [i \in 1..Len(S.L.items) |->
                entry_to_dict(S.h[S.L.items[i]], S.dom[S.L.items[i]])]]

\* from_dict(json_dict, fname) of a concrete list: a new list bound to
\* fname, every stored record added with add_item(initial_load=True).
RECURSIVE cs_load_items(_, _)
cs_load_items(recs, S) ==
  IF recs = <<>> THEN [S |-> S, err |-> "ok"]
  ELSE LET rec == Head(recs)
           h1 == Append(S.h, rec.oid)
           d1 == Append(S.dom, [text |-> rec.text, finished |-> rec.finished])
           r == add_item(S.L, h1, Len(h1), TRUE, 0)
       IN IF r.err # "ok" THEN [S |-> S, err |-> r.err]
          ELSE cs_load_items(Tail(recs), Session(r.L, r.h, d1, S.src))

cs_from_dict(d, fname) ==
  cs_load_items(d.items,
                Session(NewList(d.version, d.modified_date), <<>>, <<>>, fname))

\* The file save_cheatsheet writes to: the named list's file, else the
\* full path, else the file the list came from, else the default file.
save_target_default(S, list, listpath) == default_list_file(list)
save_target(S, list, listpath) ==
  IF TruthyStr(list) THEN default_list_file(list)
  ELSE IF TruthyStr(listpath) THEN path_file(listpath)
  ELSE IF S.src # NoSource THEN S.src
  ELSE default_list_file(NoArg)

\* The first item of the list that fails validate(), 0 if none does.
first_invalid(S) ==
  LET bad == {i \in 1..Len(S.L.items) :
                entry_validate(S.h[S.L.items[i]], S.dom[S.L.items[i]]) # "ok"}
  IN IF bad = {} THEN 0 ELSE CHOOSE i \in bad : \A j \in bad : i <= j

\* save_cheatsheet(cs, list, listpath): the list and the file system
\* afterwards, and the error raised.
save_write_first(S, files, list, listpath) ==
  IF TruthyStr(list) /\ TruthyStr(listpath)
    THEN [S |-> S, fs |-> files, err |-> "Exception"]
  ELSE IF first_invalid(S) # 0
    THEN [S |-> S,
          fs |-> [files EXCEPT ![save_target(S, list, listpath)] =
                    [cs_to_dict(S) EXCEPT
                       !.items = SubSeq(@, 1, first_invalid(S) - 1)]],
          err |-> "ValidationError"]
  ELSE [S |-> S,
        fs |-> [files EXCEPT ![save_target(S, list, listpath)] =
                  cs_to_dict(S)],
        err |-> "ok"]
save_marking_clean(S, files, list, listpath) ==
  IF TruthyStr(list) /\ TruthyStr(listpath)
    THEN [S |-> S, fs |-> files, err |-> "Exception"]
  ELSE IF first_invalid(S) # 0
    THEN [S |-> S, fs |-> files, err |-> "ValidationError"]
  ELSE [S |-> [S EXCEPT !.L.modified = FALSE],
        fs |-> [files EXCEPT ![save_target(S, list, listpath)] =
                  cs_to_dict(S)],
        err |-> "ok"]
save(S, files, list, listpath) ==
  IF TruthyStr(list) /\ TruthyStr(listpath)
    THEN [S |-> S, fs |-> files, err |-> "Exception"]
  ELSE IF first_invalid(S) # 0
    THEN [S |-> S, fs |-> files, err |-> "ValidationError"]
  ELSE [S |-> S,
        fs |-> [files EXCEPT ![save_target(S, list, listpath)] =
                  cs_to_dict(S)],
        err |-> "ok"]

\* load_cheatsheet(list, listpath): the list returned and the error raised.
\* A missing file gives an empty list bound to the file name.
load_missing(files, list, listpath) ==
  IF list # NoArg /\ listpath # NoArg
    THEN [S |-> Session(NewList("None", None), <<>>, <<>>, NoSource),
          err |-> "Exception"]
  ELSE [S |-> Session(NewList("None", None), <<>>, <<>>,
                      IF TruthyStr(listpath) THEN path_file(listpath)
                      ELSE default_list_file(list)),
        err |-> "ok"]
load(files, list, listpath) ==
  IF list # NoArg /\ listpath # NoArg
    THEN [S |-> Session(NewList("None", None), <<>>, <<>>, NoSource),
          err |-> "Exception"]
  ELSE LET fname == IF TruthyStr(listpath) THEN path_file(listpath)
                    ELSE default_list_file(list)
       IN IF files[fname] = NoFile
            THEN [S |-> Session(NewList("None", None), <<>>, <<>>, fname),
                  err |-> "ok"]
            ELSE cs_from_dict(files[fname], fname)

\* A program before it holds a list, and the programs' fields: pc is the
\* position, cmd the command with its arguments, S the list it holds, base
\* the file content the list was loaded from, err the error it ended with,
\* writes the number of times it has written a list file.
NoCmd == [name |-> "none", oid |-> None, text |-> "", force |-> FALSE]
Program(pc, cmd, S, base, err, writes) ==
  [pc |-> pc, cmd |-> cmd, S |-> S, base |-> base, err |-> err,
   writes |-> writes]

\* complete_item(oid) of the todo list: the item of that oid is marked
\* finished and the list modified; InvalidIDError if there is none.
complete_item(S, o, now) ==
  LET ind == get_item_index(S.L.items, S.h, o)
  IN IF ind = 0 THEN [S |-> S, err |-> "InvalidIDError"]
     ELSE [S |-> [S EXCEPT !.dom[S.L.items[ind]].finished = TRUE,
                           !.L = mark_modified(@, now)],
           err |-> "ok"]

\* ----------------------------------------------------------------- state
InitList ==
  /\ oid = <<>>
  /\ items = <<>>
  /\ oid_set = {}
  /\ last_item_id = 0
  /\ modified = FALSE
  /\ modified_date = None
  /\ version \in Versions
  /\ ret = Call("init", 0, FALSE, "ok", 0)
  /\ loaded = NoList
  /\ other = NewList(version, None)
  /\ proc = [p \in Procs |->
               Program("start", NoCmd,
                       Session(NewList(version, None), <<>>, <<>>, NoSource),
                       NoFile, "none", 0)]

Init ==
  /\ InitList
  /\ ever = {}
  /\ fs = [f \in Files |-> NoFile]

SetList(L) ==
  /\ items' = L.items
  /\ oid_set' = L.oid_set
  /\ last_item_id' = L.last_item_id
  /\ modified' = L.modified
  /\ modified_date' = L.modified_date
  /\ version' = L.version

ListUnchanged ==
  UNCHANGED <<items, oid_set, last_item_id, modified, modified_date, version>>

\* Item(oid=o): a caller constructs an Item.
NewItemOf(o) ==
  /\ Len(oid) < MaxItems
  /\ oid' = Append(oid, o)
  /\ ret' = Call("Item", 0, FALSE, "ok", 0)
  /\ loaded' = NoList
  /\ ListUnchanged

NewItem == \E o \in OidInputs : NewItemOf(o)

\* item.oid = o: a caller assigns the oid of an Item.
SetOidOf(x, o) ==
  LET s == oid_setter(oid[x], o)
  IN /\ oid' = [oid EXCEPT ![x] = s.oid]
     /\ ret' = Call("oid_setter", x, FALSE, s.err, 0)
     /\ loaded' = NoList
     /\ ListUnchanged

SetOid == \E x \in Refs, o \in OidInputs : SetOidOf(x, o)

\* list.add_item(x, initial_load), time.time() returning now
AddItemOf(x, il, now) ==
  LET r == add_item(ThisList, oid, x, il, now)
  IN /\ (~il) => last_item_id < MaxLastId
     /\ SetList(r.L)
     /\ oid' = r.h
     /\ ret' = Call("add_item", x, il, r.err, 0)
     /\ loaded' = NoList

AddItem == \E x \in Refs, il \in BOOLEAN, now \in Times : AddItemOf(x, il, now)

\* list.remove_item(o), time.time() returning now
RemoveItemOf(o, now) ==
  LET r == remove_item(ThisList, oid, o, now)
  IN /\ SetList(r.L)
     /\ ret' = Call("remove_item", 0, FALSE, r.err, r.val)
     /\ loaded' = NoList
     /\ UNCHANGED oid

RemoveItem == \E o \in LookupOids, now \in Times : RemoveItemOf(o, now)

\* list.get_item(o)
GetItemOf(o) ==
  LET r == get_item(ThisList, oid, o)
  IN /\ ret' = Call("get_item", 0, FALSE, r.err, r.val)
     /\ loaded' = NoList
     /\ ListUnchanged
     /\ UNCHANGED oid

GetItem == \E o \in LookupOids : GetItemOf(o)

\* The list is written to its persistence form and a list is rebuilt from
\* what was written.
RoundTrip ==
  LET r == from_dict(to_dict(ThisList, oid), oid)
  IN /\ loaded' = r
     /\ ret' = Call("from_dict", 0, FALSE, r.err, 0)
     /\ ListUnchanged
     /\ UNCHANGED oid

\* list.validate()
Validate ==
  LET r == validate(ThisList, oid)
  IN /\ SetList(r.L)
     /\ ret' = Call("validate", 0, FALSE, r.err, r.val)
     /\ loaded' = NoList
     /\ UNCHANGED oid

\* list.size()
Size ==
  LET r == size(ThisList)
  IN /\ SetList(r.L)
     /\ ret' = Call("size", 0, FALSE, "ok", r.n)
     /\ loaded' = NoList
     /\ UNCHANGED oid

\* list.query_items(m)
QueryItemsOf(m) ==
  LET r == query_items(ThisList, oid, m)
  IN /\ SetList(r.L)
     /\ ret' = [Call("query_items", 0, FALSE, "ok", 0)
                 EXCEPT !.seq = r.seq, !.alias = r.alias]
     /\ loaded' = NoList
     /\ UNCHANGED oid

QueryItems == \E m \in Matchers : QueryItemsOf(m)

\* result.pop(): the caller takes the last element off the list object the
\* last query returned. It is taken off _items too when the two are one
\* object.
ResultPop ==
  /\ ret.op \in {"query_items", "result_pop"}
  /\ ret.seq # <<>>
  /\ LET s == SubSeq(ret.seq, 1, Len(ret.seq) - 1)
     IN /\ ret' = [ret EXCEPT !.op = "result_pop", !.seq = s]
        /\ items' = IF ret.alias THEN s ELSE items
  /\ loaded' = NoList
  /\ UNCHANGED <<oid, oid_set, last_item_id, modified, modified_date,
                 version>>

\* What the operations on the one list leave alone.
Apart == <<other, fs, proc, ever>>

Next ==
  \/ NewItem /\ UNCHANGED Apart
  \/ SetOid /\ UNCHANGED Apart
  \/ AddItem /\ UNCHANGED Apart
  \/ RemoveItem /\ UNCHANGED Apart
  \/ GetItem /\ UNCHANGED Apart
  \/ RoundTrip /\ UNCHANGED Apart

Spec == Init /\ [][Next]_vars

\* The list under its mutations and its read operations.
NextRead ==
  \/ NewItem /\ UNCHANGED Apart
  \/ AddItem /\ UNCHANGED Apart
  \/ RemoveItem /\ UNCHANGED Apart
  \/ GetItem /\ UNCHANGED Apart
  \/ Validate /\ UNCHANGED Apart
  \/ Size /\ UNCHANGED Apart
  \/ QueryItems /\ UNCHANGED Apart
  \/ ResultPop /\ UNCHANGED Apart

SpecRead == Init /\ [][NextRead]_vars

\* ------------------------------------------------------------- two lists
\* other.add_item(x, initial_load): the same operation on the second list.
AddItemOtherOf(x, il, now) ==
  LET r == add_item(other, oid, x, il, now)
  IN /\ (~il) => other.last_item_id < MaxLastId
     /\ other' = r.L
     /\ oid' = r.h
     /\ ret' = Call("other.add_item", x, il, r.err, 0)
     /\ loaded' = NoList
     /\ ListUnchanged
     /\ UNCHANGED <<fs, proc, ever>>

AddItemOther ==
  \E x \in Refs, il \in BOOLEAN : AddItemOtherOf(x, il, 0)

\* other.remove_item(o)
RemoveItemOtherOf(o, now) ==
  LET r == remove_item(other, oid, o, now)
  IN /\ other' = r.L
     /\ ret' = Call("other.remove_item", 0, FALSE, r.err, r.val)
     /\ loaded' = NoList
     /\ ListUnchanged
     /\ UNCHANGED <<oid, fs, proc, ever>>

RemoveItemOther == \E o \in LookupOids : RemoveItemOtherOf(o, 0)

\* The most Items the callers of the two lists construct.
MaxShared == 1

NextTwo ==
  \/ (Len(oid) < MaxShared /\ NewItem) /\ UNCHANGED Apart
  \/ (\E x \in Refs, il \in BOOLEAN : AddItemOf(x, il, 0))
       /\ UNCHANGED Apart
  \/ (\E o \in LookupOids : RemoveItemOf(o, 0)) /\ UNCHANGED Apart
  \/ AddItemOther
  \/ RemoveItemOther

SpecTwo == Init /\ [][NextTwo]_vars

\* ------------------------------------------- one list and its past oids
\* The oids of the Items of a list.
held(its, h) == {h[its[i]] : i \in 1..Len(its)}

\* A step of the list, with the oids its Items have afterwards recorded.
Recorded == ever' = ever \cup held(items', oid')

NextEver ==
  \/ NewItem /\ Recorded /\ UNCHANGED <<other, fs, proc>>
  \/ (\E x \in Refs, il \in BOOLEAN : AddItemOf(x, il, 0))
       /\ Recorded /\ UNCHANGED <<other, fs, proc>>
  \/ (\E o \in LookupOids : RemoveItemOf(o, 0))
       /\ Recorded /\ UNCHANGED <<other, fs, proc>>

SpecEver == Init /\ [][NextEver]_vars

\* ------------------------------------------- one program and its list files
\* What the operations on list files leave alone.
ListApart ==
  <<oid, items, oid_set, last_item_id, modified, modified_date, version,
    loaded, other, ever>>

\* A call on list files: its name, its list and listpath arguments, its error.
FileCall(op, list, listpath, err) ==
  [Call(op, 0, FALSE, err, 0) EXCEPT !.seq = <<list, listpath>>]

\* The most entries a list holds in the programs.
MaxEntries == 2
\* The most times a program writes a list file.
MaxWrites == 2

\* cs = load_cheatsheet(list, listpath): on success the program holds the
\* loaded list in place of the one it held.
LoadCheatsheetOf(list, listpath) ==
  LET r == load(fs, list, listpath)
  IN /\ proc' = [proc EXCEPT ![1].S = IF r.err = "ok" THEN r.S ELSE @]
     /\ ret' = FileCall("load", list, listpath, r.err)
     /\ UNCHANGED fs
     /\ UNCHANGED ListApart

LoadCheatsheet ==
  \E list \in ListArgs, listpath \in PathArgs :
    LoadCheatsheetOf(list, listpath)

\* cs.add_item(Entry(text)): the program constructs an entry and adds it.
AddEntryOf(t, now) ==
  LET S == proc[1].S
      h1 == Append(S.h, None)
      r == add_item(S.L, h1, Len(h1), FALSE, now)
  IN /\ Len(S.L.items) < MaxEntries
     /\ proc' = [proc EXCEPT ![1].S =
                   Session(r.L, r.h, Append(S.dom, Entry(t)), S.src)]
     /\ ret' = FileCall("add_entry", NoArg, NoArg, r.err)
     /\ UNCHANGED fs
     /\ UNCHANGED ListApart

AddEntry == \E t \in Texts : AddEntryOf(t, 0)

\* save_cheatsheet(cs, list, listpath)
SaveCheatsheetOf(list, listpath) ==
  LET r == save(proc[1].S, fs, list, listpath)
  IN /\ proc[1].writes < MaxWrites
     /\ proc' = [proc EXCEPT ![1].S = r.S,
                              ![1].writes = IF r.fs # fs THEN @ + 1 ELSE @]
     /\ fs' = r.fs
     /\ ret' = FileCall("save", list, listpath, r.err)
     /\ UNCHANGED ListApart

SaveCheatsheet ==
  \E list \in ListArgs, listpath \in PathArgs :
    SaveCheatsheetOf(list, listpath)

NextFile ==
  \/ LoadCheatsheet
  \/ AddEntry
  \/ SaveCheatsheet

SpecFile == Init /\ [][NextFile]_vars

\* ------------------------------------- invocations of the command line
\* The file every invocation works on: neither --list nor --listpath.
ListFile == default_list_file(NoArg)

\* The commands with their arguments. force says that no prompt is shown:
\* --force of add and remove, the default of complete (--prompt unsets it).
CliTexts == {"t", "u"}
CliOids == {Int1(n) : n \in 1..MaxLastId}
Commands ==
  {[name |-> "add", oid |-> None, text |-> t, force |-> f] :
     t \in CliTexts, f \in BOOLEAN}
  \cup {[name |-> n, oid |-> o, text |-> "", force |-> f] :
          n \in {"remove", "complete"}, o \in CliOids, f \in BOOLEAN}

\* The list file before the invocations: none, or one stored entry.
StoredFile ==
  [version |-> "0.1", modified_date |-> Int1(0),
   items |-> <<[oid |-> Int1(1), text |-> "t", finished |-> FALSE]>>]

InitCli ==
  /\ InitList
  /\ ever = {}
  /\ \E d \in {NoFile, StoredFile} :
       fs = [f \in Files |-> IF f = ListFile THEN d ELSE NoFile]

\* What an invocation's step leaves alone.
CliUnchanged ==
  UNCHANGED <<oid, items, oid_set, last_item_id, modified, modified_date,
              version, loaded, other, ever>>

\* The step of invocation p, as the last call.
CliCall(op, p, err) == Call(op, p, FALSE, err, 0)

\* tl = load_todo_list(list=args.list, listpath=args.listpath), first
\* statement of every command after its arguments are parsed.
CliLoad(p, c) ==
  LET r == load(fs, NoArg, NoArg)
  IN /\ proc[p].pc = "start"
     /\ proc' = [proc EXCEPT ![p] =
                   Program(IF r.err = "ok" THEN "loaded" ELSE "failed",
                           c, r.S, fs[ListFile], r.err, 0)]
     /\ ret' = CliCall("cli_load", p, r.err)
     /\ UNCHANGED fs
     /\ CliUnchanged

\* todo = tl.get_item(args.oid) of remove and complete.
CliLookup(p) ==
  LET P == proc[p]
      r == get_item(P.S.L, P.S.h, P.cmd.oid)
  IN /\ P.pc = "loaded"
     /\ P.cmd.name \in {"remove", "complete"}
     /\ proc' = [proc EXCEPT ![p].pc = IF r.err = "ok" THEN "found"
                                        ELSE "failed",
                              ![p].err = r.err]
     /\ ret' = CliCall("cli_get_item", p, r.err)
     /\ UNCHANGED fs
     /\ CliUnchanged

\* prompt_yes_no(question): shown unless forced; on "no" the program does
\* exit(0).
CliPrompt(p, cont) ==
  LET P == proc[p]
  IN /\ ~P.cmd.force
     /\ \/ P.cmd.name = "add" /\ P.pc = "loaded"
        \/ P.cmd.name \in {"remove", "complete"} /\ P.pc = "found"
     /\ proc' = [proc EXCEPT ![p].pc = IF cont THEN "confirmed" ELSE "exit0"]
     /\ ret' = CliCall("cli_prompt", p, "ok")
     /\ UNCHANGED fs
     /\ CliUnchanged

\* The command's mutation: tl.add_item(todo), tl.remove_item(args.oid) or
\* tl.complete_item(args.oid), reached without a prompt or after a "yes".
\* add prompts only when the todo has new tags.
cli_mutate(S, c) ==
  CASE c.name = "add" ->
         LET h1 == Append(S.h, None)
             r == add_item(S.L, h1, Len(h1), FALSE, 0)
         IN [S |-> Session(r.L, r.h, Append(S.dom, Entry(c.text)), S.src),
             err |-> r.err]
    [] c.name = "remove" ->
         LET r == remove_item(S.L, S.h, c.oid, 0)
         IN [S |-> [S EXCEPT !.L = r.L], err |-> r.err]
    [] OTHER -> complete_item(S, c.oid, 0)

CliMutate(p) ==
  LET P == proc[p]
      r == cli_mutate(P.S, P.cmd)
  IN /\ \/ P.pc = "confirmed"
        \/ P.cmd.name = "add" /\ P.pc = "loaded"
        \/ P.cmd.name \in {"remove", "complete"} /\ P.pc = "found"
             /\ P.cmd.force
     /\ P.cmd.name = "add" =>
          (Len(P.S.L.items) < MaxEntries /\ P.S.L.last_item_id < MaxLastId)
     /\ proc' = [proc EXCEPT ![p].pc = IF r.err = "ok" THEN "mutated"
                                        ELSE "failed",
                              ![p].S = r.S,
                              ![p].err = r.err]
     /\ ret' = CliCall("cli_mutate", p, r.err)
     /\ UNCHANGED fs
     /\ CliUnchanged

\* save_todo_list(tl, list=args.list, listpath=args.listpath), the last
\* statement that touches the list.
CliSave(p) ==
  LET P == proc[p]
      r == save(P.S, fs, NoArg, NoArg)
  IN /\ P.pc = "mutated"
     /\ proc' = [proc EXCEPT ![p].pc = IF r.err = "ok" THEN "done"
                                        ELSE "failed",
                              ![p].S = r.S,
                              ![p].err = r.err,
                              ![p].writes = IF r.err = "ok" THEN @ + 1 ELSE @]
     /\ fs' = r.fs
     /\ ret' = CliCall("cli_save", p, r.err)
     /\ CliUnchanged

NextCli ==
  \/ \E p \in Procs, c \in Commands : CliLoad(p, c)
  \/ \E p \in Procs : CliLookup(p)
  \/ \E p \in Procs, cont \in BOOLEAN : CliPrompt(p, cont)
  \/ \E p \in Procs : CliMutate(p)
  \/ \E p \in Procs : CliSave(p)

SpecCli == InitCli /\ [][NextCli]_vars

\* ------------------------------------------------------- claim vocabulary
ListState == <<items, oid_set, last_item_id, modified, modified_date>>

\* The oids of the items of a sequence of Item objects, in order.
OidsOf(its, h) == [i \in 1..Len(its) |-> h[its[i]]]

\* The positions at which list items hold oid o.
Holders(o) == {i \in 1..Len(items) : oid[items[i]] = o}

MaxOf(S) == CHOOSE m \in S : \A n \in S : m >= n

\* Which call the last one was.
IsFreshAdd(x) == ret.op = "add_item" /\ ~ret.initial_load /\ ret.item = x
IsLoad(x) == ret.op = "add_item" /\ ret.initial_load /\ ret.item = x
IsRemove == ret.op = "remove_item"
IsGet == ret.op = "get_item"
IsSetOid(x) == ret.op = "oid_setter" /\ ret.item = x

\* C1: a fresh add (initial_load false) of an Item without oid succeeds,
\* gives it the oid _last_item_id + 1, makes that the new _last_item_id,
\* appends the Item, puts the oid in the oid set, leaves it held by no other
\* item, and marks the list modified.
C1_FreshAdd ==
  [][\A x \in Refs, now \in Times :
       (IsFreshAdd(x)' /\ AddItemOf(x, FALSE, now) /\ IsNone(oid[x])) =>
         /\ ret'.err = "ok"
         /\ oid'[x] = Int1(last_item_id + 1)
         /\ last_item_id' = last_item_id + 1
         /\ items' = Append(items, x)
         /\ Val(oid'[x]) \in oid_set'
         /\ \A i \in 1..Len(items') :
              oid'[items'[i]] = oid'[x] => i = Len(items')
         /\ modified' = TRUE]_vars

\* A second fresh add has succeeded.
C1_Witness ==
  /\ ret.op = "add_item" /\ ~ret.initial_load /\ ret.err = "ok"
  /\ Len(items) = 2
  /\ items[2] = ret.item
  /\ oid[ret.item] = Int1(2)

\* C2: in every reachable state the oid set is exactly the set of oids of
\* the list's items, no two items hold the same oid, and _last_item_id is
\* at least every oid present.
C2_ListInvariant ==
  /\ \A i \in 1..Len(items) : ~IsNone(oid[items[i]])
  /\ oid_set = {Val(oid[items[i]]) : i \in 1..Len(items)}
  /\ \A i, j \in 1..Len(items) :
       oid[items[i]] = oid[items[j]] => i = j
  /\ \A i \in 1..Len(items) : last_item_id >= Val(oid[items[i]])

\* An item was removed from a list of two, one loaded and one freshly added.
C2_Witness ==
  /\ ret.op = "remove_item" /\ ret.err = "ok"
  /\ Len(items) = 1
  /\ last_item_id > Val(oid[items[1]])

\* C3 as claimed: the list rebuilt from the persistence form has the same
\* version, the same oids in the same order and the same _last_item_id.
\* Stated for the lists that were never offered an Item of oid 0, so that
\* every add_item call made on them behaved as documented.
C3_RoundTripSameLastId ==
  (ret.op = "from_dict" /\ \A x \in Refs : oid[x] # Int1(0)) =>
    /\ loaded.err = "ok"
    /\ loaded.L.version = version
    /\ OidsOf(loaded.L.items, loaded.h) = OidsOf(items, oid)
    /\ loaded.L.last_item_id = last_item_id

\* C3 as amended: the list rebuilt from the persistence form has the same
\* version and the same oids in the same order; its _last_item_id is the
\* largest of 0 and the oids of the items, which is never more than the
\* original's _last_item_id.
C3_RoundTrip ==
  ret.op = "from_dict" =>
    /\ loaded.err = "ok"
    /\ loaded.L.version = version
    /\ OidsOf(loaded.L.items, loaded.h) = OidsOf(items, oid)
    /\ loaded.L.last_item_id = MaxOf({0} \cup oid_set)
    /\ loaded.L.last_item_id <= last_item_id

\* A list that has lost the item with its highest oid was rebuilt.
C3_Witness ==
  /\ ret.op = "from_dict"
  /\ Len(items) = 1
  /\ loaded.L.last_item_id < last_item_id

C5_AbsentOid ==
  [][/\ IsRemove' =>
          \A o \in LookupOids, now \in Times :
            (Holders(o) = {} /\ RemoveItemOf(o, now)) =>
              ret'.err = "InvalidIDError" /\ ListState' = ListState
     /\ IsGet' =>
          \A o \in LookupOids :
            (Holders(o) = {} /\ GetItemOf(o)) =>
              ret'.err = "InvalidIDError" /\ ListState' = ListState]_vars

\* A removal failed on a list that holds an item.
C5_Witness ==
  /\ ret.op = "remove_item" /\ ret.err = "InvalidIDError"
  /\ Len(items) >= 1

\* C6: add_item(x, initial_load=True) with x.oid already in the oid set
\* raises IllegalStateError and leaves the list as it was.
C6_ReloadDuplicate ==
  [][\A x \in Refs, now \in Times :
       (/\ IsLoad(x)'
        /\ AddItemOf(x, TRUE, now)
        /\ ~IsNone(oid[x])
        /\ Val(oid[x]) \in oid_set) =>
         ret'.err = "IllegalStateError" /\ ListState' = ListState]_vars

\* A load of an Item was refused whose oid another list item holds.
C6_Witness ==
  /\ ret.op = "add_item" /\ ret.initial_load
  /\ ret.err = "IllegalStateError"
  /\ Len(items) = 1
  /\ items[1] # ret.item
  /\ oid[items[1]] = oid[ret.item]

\* C7 as claimed: add_item(x, initial_load=True) with x.oid set and not in
\* the oid set succeeds, adds exactly x.oid to the oid set, appends x, makes
\* _last_item_id the larger of itself and x.oid, and leaves modified and
\* modified_date alone.
C7_ReloadNew ==
  [][\A x \in Refs, now \in Times :
       (/\ IsLoad(x)'
        /\ AddItemOf(x, TRUE, now)
        /\ ~IsNone(oid[x])
        /\ Val(oid[x]) \notin oid_set) =>
         /\ ret'.err = "ok"
         /\ oid_set' = oid_set \cup {Val(oid[x])}
         /\ items' = Append(items, x)
         /\ last_item_id' = Max(last_item_id, Val(oid[x]))
         /\ modified' = modified
         /\ modified_date' = modified_date]_vars

\* C8 as claimed: add_item(x, initial_load=False) with x.oid set to any
\* integer, 0 and negatives included, raises IllegalStateError.
C8_FreshAddWithOid ==
  [][\A x \in Refs, now \in Times :
       (IsFreshAdd(x)' /\ AddItemOf(x, FALSE, now) /\ ~IsNone(oid[x])) =>
         ret'.err = "IllegalStateError"]_vars

\* C9 as claimed: add_item(x, initial_load=True) raises IllegalStateError
\* exactly when x.oid is None or already in the oid set, and accepts every
\* other integer, 0 and negatives included.
C9_ReloadFailsExactly ==
  [][\A x \in Refs, now \in Times :
       (IsLoad(x)' /\ AddItemOf(x, TRUE, now)) =>
         /\ ret'.err \in {"ok", "IllegalStateError"}
         /\ ret'.err = "IllegalStateError" <=>
              (IsNone(oid[x]) \/ Val(oid[x]) \in oid_set)]_vars

\* C10: assigning an Item's oid succeeds only while the oid is None; once
\* it is an integer every assignment raises ReadOnlyError and no step of
\* any operation changes it.
C10_OidWriteOnce ==
  [][/\ \A x \in Refs : ~IsNone(oid[x]) => oid'[x] = oid[x]
     /\ \A x \in Refs, o \in OidInputs :
          (IsSetOid(x)' /\ SetOidOf(x, o)) =>
            /\ ret'.err = "ok" <=> IsNone(oid[x])
            /\ IsNone(oid[x]) => oid'[x] = o
            /\ ~IsNone(oid[x]) => ret'.err = "ReadOnlyError"]_vars

\* An assignment to an Item that holds an oid was refused.
C10_Witness ==
  /\ ret.op = "oid_setter" /\ ret.err = "ReadOnlyError"
  /\ ~IsNone(oid[ret.item])

\* The positions of the list items that matcher m matches.
Matching(m) == {i \in 1..Len(items) : matches(m, oid[items[i]])}

\* The k-th smallest element of a set of positions.
Kth(P, k) == CHOOSE i \in P : Cardinality({j \in P : j <= i}) = k

\* The positions of the list items whose oid is None or not positive.
NotPositive == {i \in 1..Len(items) :
                  IsNone(oid[items[i]]) \/ Val(oid[items[i]]) <= 0}

\* C11 as claimed: validate() raises ValidationError exactly when some item
\* has an oid that is None or not a positive integer (0 and negatives
\* included), for the first such item in list order; it returns without
\* error only when every item has a positive oid.
C11_ValidatePositive ==
  [][ret'.op = "validate" =>
       /\ ret'.err = "ValidationError" <=> NotPositive # {}
       /\ ret'.err = "ok" <=> NotPositive = {}
       /\ NotPositive # {} =>
            ret'.val = items[Kth(NotPositive, 1)]]_vars

\* The list the one program of SpecFile holds.
Sess == proc[1].S

\* A list name or a path was supplied: the argument is a non-empty string.
Supplied(a) == a # NoArg /\ a # ""

\* The positions of the list's entries that fail validate().
Failing(S) ==
  {i \in 1..Len(S.L.items) :
     entry_validate(S.h[S.L.items[i]], S.dom[S.L.items[i]]) # "ok"}

\* C12 as stated: after a save succeeds on a list whose modified flag is
\* true, the flag is false.
C12_SaveClearsModified ==
  [][(ret'.op = "save" /\ ret'.err = "ok" /\ Sess.L.modified)
       => ~Sess'.L.modified]_vars

\* C12 as the code has it: a save, successful or not, leaves the list and
\* its modified flag as they were, so a flagged list is still flagged after
\* the save; once the flag is true it stays true for as long as the program
\* holds that list (until it loads another one).
C12_SaveKeepsModified ==
  [][/\ ret'.op = "save" => Sess' = Sess
     /\ (Sess.L.modified /\ ~(ret'.op = "load" /\ ret'.err = "ok"))
          => Sess'.L.modified]_vars

\* A successful save of a flagged list: the file holds the list and the
\* flag is still true.
C12_Witness ==
  /\ ret.op = "save" /\ ret.err = "ok"
  /\ Sess.L.modified
  /\ Len(Sess.L.items) >= 1
  /\ \E f \in Files : fs[f] = cs_to_dict(Sess)

\* C13: a save whose arguments are accepted and whose list has an item that
\* fails validation raises ValidationError and leaves every file as it was
\* (with both a list name and a path it raises the argument error, checked
\* first, and writes nothing either); a save that succeeds had no failing
\* item and changes one file, to the whole list.
C13_SaveAllOrNothing ==
  [][ret'.op = "save" =>
       \A list \in {ret'.seq[1]}, listpath \in {ret'.seq[2]} :
         SaveCheatsheetOf(list, listpath) =>
           /\ Failing(Sess) # {} =>
                /\ fs' = fs
                /\ ret'.err # "ok"
                /\ ~(Supplied(list) /\ Supplied(listpath))
                     => ret'.err = "ValidationError"
           /\ ret'.err = "ok" =>
                /\ Failing(Sess) = {}
                /\ \E f \in Files : fs' = [fs EXCEPT ![f] = cs_to_dict(Sess)]
           /\ ret'.err # "ok" => fs' = fs]_vars

\* A save refused for an invalid item while the file it would have written
\* holds an earlier, different content.
C13_Witness ==
  /\ ret.op = "save" /\ ret.err = "ValidationError"
  /\ ret.seq = <<NoArg, NoArg>>
  /\ Sess.src # NoSource
  /\ fs[Sess.src] # NoFile
  /\ Len(fs[Sess.src].items) < Len(Sess.L.items)

\* C14: query_items, get_item, size and validate leave the list's fields
\* and every Item as they were, and validate() on a list whose items all
\* have positive oids raises nothing.
C14_ReadsChangeNothing ==
  [][ret'.op \in {"query_items", "get_item", "size", "validate"} =>
       /\ ListState' = ListState
       /\ version' = version
       /\ oid' = oid
       /\ (ret'.op = "validate" /\ NotPositive = {}) => ret'.err = "ok"]_vars

\* validate() ran on a clean list that holds an item and left it clean.
C14_Witness ==
  /\ ret.op = "validate" /\ ret.err = "ok"
  /\ Len(items) >= 1
  /\ ~modified
  /\ modified_date = None

\* C15: query_items(m) returns exactly the items m matches, in list order:
\* all of them for a matcher that matches everything, none for one that
\* matches nothing; what it returns is a new list object, so taking an
\* element off it leaves the list's items alone.
C15_QueryItems ==
  [][/\ ret'.op = "query_items" =>
          \A m \in Matchers :
            QueryItemsOf(m) =>
              /\ Len(ret'.seq) = Cardinality(Matching(m))
              /\ \A k \in 1..Len(ret'.seq) :
                   ret'.seq[k] = items[Kth(Matching(m), k)]
              /\ m = "all" => ret'.seq = items
              /\ m = "none" => ret'.seq = <<>>
              /\ ~ret'.alias
     /\ ret'.op = "result_pop" =>
          /\ items' = items
          /\ Len(ret'.seq) = Len(ret.seq) - 1]_vars

\* An element was taken off the result of a query that returned both items
\* of the list; the list still holds both.
C15_Witness ==
  /\ ret.op = "result_pop"
  /\ Len(items) = 2
  /\ ret.seq = <<items[1]>>

\* C16: no step lowers _last_item_id: not add_item in either mode, ending
\* in an error or not, not remove_item (of the item with the highest oid
\* too), not a read.
C16_LastIdNeverDecreases ==
  [][last_item_id' >= last_item_id]_vars

\* The item holding the highest oid ever assigned was removed.
C16_Witness ==
  /\ ret.op = "remove_item" /\ ret.err = "ok"
  /\ oid[ret.val] = Int1(last_item_id)
  /\ last_item_id = 2
  /\ Len(items) = 1

\* The file a load reads, and so binds the list to.
LoadPath(list, listpath) ==
  IF Supplied(listpath) THEN <<"path", listpath>>
  ELSE <<"dir", IF Supplied(list) THEN list ELSE "cheatsheet">>

\* The file a save writes: the named list's, else the given path, else the
\* one the list is bound to, else the default list's.
SavePath(S, list, listpath) ==
  CASE Supplied(list) -> <<"dir", list>>
    [] ~Supplied(list) /\ Supplied(listpath) -> <<"path", listpath>>
    [] ~Supplied(list) /\ ~Supplied(listpath) /\ S.src # NoSource -> S.src
    [] OTHER -> <<"dir", "cheatsheet">>

\* C17: a successful load binds the list to the file it read, writes
\* nothing, and gives an empty list without error when that file does not
\* exist; a successful save writes the whole list to exactly one file: the
\* bound one when neither a list name nor a path is supplied, the named
\* list's or the given path otherwise; a save with both a list name and a
\* path fails and writes nothing.
C17_BoundToLoadPath ==
  [][/\ ret'.op = "load" =>
          \A list \in {ret'.seq[1]}, listpath \in {ret'.seq[2]} :
            LoadCheatsheetOf(list, listpath) =>
              /\ fs' = fs
              /\ ret'.err = "ok" => Sess'.src = LoadPath(list, listpath)
              /\ (ret'.err = "ok" /\ fs[LoadPath(list, listpath)] = NoFile)
                   => Sess'.L.items = <<>>
              /\ (fs[LoadPath(list, listpath)] = NoFile
                    /\ (list = NoArg \/ listpath = NoArg))
                   => ret'.err = "ok"
     /\ ret'.op = "save" =>
          \A list \in {ret'.seq[1]}, listpath \in {ret'.seq[2]} :
            SaveCheatsheetOf(list, listpath) =>
              /\ (Supplied(list) /\ Supplied(listpath))
                   => (ret'.err = "Exception" /\ fs' = fs)
              /\ ret'.err = "ok" =>
                   fs' = [fs EXCEPT ![SavePath(Sess, list, listpath)] =
                            cs_to_dict(Sess)]]_vars

\* A list loaded from a path where no file existed, then changed and saved
\* with neither a list name nor a path: the file at that path holds it.
C17_Witness ==
  /\ ret.op = "save" /\ ret.err = "ok"
  /\ ret.seq = <<NoArg, NoArg>>
  /\ Sess.src = <<"path", "/p">>
  /\ Len(Sess.L.items) >= 1
  /\ fs[Sess.src] = cs_to_dict(Sess)
  /\ \A f \in Files \ {Sess.src} : fs[f] = NoFile
\* The Items a list holds.
Members(its) == {its[i] : i \in 1..Len(its)}

\* C19 as stated: no Item is in the items of both lists at once.
C19_NoSharedItem == Members(items) \cap Members(other.items) = {}

\* C19 as the code has it: for an Item that is in one list's items,
\* add_item(initial_load=False) on the other list fails with
\* IllegalStateError (the Item has an oid) and changes nothing, while
\* add_item(initial_load=True) succeeds exactly when the Item's oid is not
\* in the other list's oid set, and then appends the Item there and leaves
\* it in the first list: the Item is in both.
C19_SharedByLoad ==
  [][/\ (ret'.op = "other.add_item" /\ ret'.item \in Members(items)) =>
          /\ items' = items /\ oid' = oid
          /\ ~ret'.initial_load =>
               (ret'.err = "IllegalStateError" /\ other' = other)
          /\ ret'.initial_load =>
               /\ ret'.err = "ok" <=> Val(oid[ret'.item]) \notin other.oid_set
               /\ ret'.err = "ok" =>
                    other'.items = Append(other.items, ret'.item)
               /\ ret'.err # "ok" => other' = other
     /\ (ret'.op = "add_item" /\ ret'.item \in Members(other.items)) =>
          /\ other' = other /\ oid' = oid
          /\ ~ret'.initial_load =>
               (ret'.err = "IllegalStateError" /\ ListState' = ListState)
          /\ ret'.initial_load =>
               /\ ret'.err = "ok" <=> Val(oid[ret'.item]) \notin oid_set
               /\ ret'.err = "ok" => items' = Append(items, ret'.item)
               /\ ret'.err # "ok" => ListState' = ListState]_vars

\* An Item of the first list was loaded into the second: it is in both.
C19_Witness ==
  /\ ret.op = "other.add_item" /\ ret.initial_load /\ ret.err = "ok"
  /\ ret.item \in Members(items)
  /\ ret.item \in Members(other.items)

\* The oids stored in a file content, and the content's items after a
\* command has been carried out on them.
StoredOids(d) == {d.items[i].oid : i \in 1..Len(d.items)}
NextStoredOid(d) ==
  Int1(1 + MaxOf({0} \cup {Val(o) : o \in StoredOids(d)}))
RECURSIVE Without(_, _)
Without(es, o) ==
  IF es = <<>> THEN <<>>
  ELSE IF Head(es).oid = o THEN Tail(es)
  ELSE <<Head(es)>> \o Without(Tail(es), o)
Expected(d, c) ==
  CASE c.name = "add" ->
         Append(d.items, [oid |-> NextStoredOid(d), text |-> c.text,
                          finished |-> FALSE])
    [] c.name = "remove" -> Without(d.items, c.oid)
    [] OTHER ->
         [i \in 1..Len(d.items) |->
            IF d.items[i].oid = c.oid
              THEN [d.items[i] EXCEPT !.finished = TRUE]
              ELSE d.items[i]]

\* C18: the list file changes only in a save step of an invocation, and
\* then to exactly the list that invocation holds, whatever the file held:
\* the items it loaded with its own command carried out on them. What
\* another invocation saved after this one loaded is not in the file.
C18_LastWriterWins ==
  [][/\ fs' # fs => ret'.op = "cli_save"
     /\ ret'.op = "cli_save" =>
          \A p \in {ret'.item} :
            /\ ret'.err = "ok"
            /\ fs' = [fs EXCEPT ![ListFile] = cs_to_dict(proc[p].S)]
            /\ fs'[ListFile].items = Expected(proc[p].base, proc[p].cmd)]_vars

\* Lost update: both invocations loaded the missing file, 1 added "t" and
\* saved, 2 added "u" and saved; the file holds only "u".
C18_Witness ==
  /\ proc[1].pc = "done" /\ proc[2].pc = "done"
  /\ proc[1].cmd.name = "add" /\ proc[1].cmd.text = "t"
  /\ proc[2].cmd.name = "add" /\ proc[2].cmd.text = "u"
  /\ proc[1].base = NoFile /\ proc[2].base = NoFile
  /\ ret.op = "cli_save" /\ ret.item = 2
  /\ fs[ListFile].items =
       <<[oid |-> Int1(1), text |-> "u", finished |-> FALSE]>>
\* The list of an invocation is as it was loaded.
Unmutated(P) ==
  /\ ~P.S.L.modified
  /\ cs_to_dict(P.S).items = P.base.items

\* C20: in every step of an invocation of remove or complete: the lookup
\* is made on the list as loaded, before any prompt; it ends the
\* invocation with InvalidIDError exactly when the oid is not stored; a
\* prompt comes only after a successful lookup and its "no" ends the
\* invocation with exit code 0; an invocation ended either way holds the
\* list as loaded and has written nothing; the mutation comes only after
\* the lookup (and the "yes", if a prompt is shown); the file is written
\* only by the save step that follows a successful mutation, once.
C20_LookupFirst ==
  [][\A p \in {ret'.item} \cap Procs :
       LET P == proc[p]
           Q == proc'[p]
       IN Q.cmd.name \in {"remove", "complete"} =>
            /\ ret'.op = "cli_get_item" =>
                 /\ P.pc = "loaded" /\ Unmutated(P) /\ fs' = fs
                 /\ Q.cmd.oid \notin StoredOids(P.base) =>
                      (Q.pc = "failed" /\ Q.err = "InvalidIDError")
                 /\ Q.cmd.oid \in StoredOids(P.base) => Q.pc = "found"
            /\ ret'.op = "cli_prompt" =>
                 /\ P.pc = "found" /\ ~P.cmd.force /\ fs' = fs
                 /\ Q.pc \in {"exit0", "confirmed"}
            /\ Q.pc \in {"failed", "exit0"} =>
                 (Unmutated(Q) /\ Q.writes = 0 /\ fs' = fs)
            /\ ret'.op = "cli_mutate" =>
                 /\ P.pc = (IF P.cmd.force THEN "found" ELSE "confirmed")
                 /\ Unmutated(P) /\ fs' = fs
                 /\ Q.pc = "mutated"
                 /\ cs_to_dict(Q.S).items = Expected(P.base, P.cmd)
            /\ fs' # fs =>
                 /\ ret'.op = "cli_save"
                 /\ P.pc = "mutated" /\ Q.pc = "done"
                 /\ P.writes = 0 /\ Q.writes = 1
            /\ P.pc \notin {"failed", "exit0", "done"}]_vars

\* Invocation 1, a remove of a stored oid, was declined at the prompt and
\* invocation 2, a complete of an oid that is not stored, failed: neither
\* has written and the file is as it was.
C20_Witness ==
  /\ proc[1].cmd.name = "remove" /\ proc[1].pc = "exit0"
  /\ proc[1].base = StoredFile
  /\ proc[2].cmd.name = "complete" /\ proc[2].pc = "failed"
  /\ proc[2].err = "InvalidIDError"
  /\ proc[2].base = StoredFile
  /\ proc[1].writes = 0 /\ proc[2].writes = 0
  /\ fs[ListFile] = StoredFile
\* C21: the oid a successful add_item(initial_load=False) gives its Item is
\* greater than every oid an Item of the list has had while in the list up
\* to then, the Items since removed included.
C21_NoReuse ==
  [][(ret'.op = "add_item" /\ ~ret'.initial_load /\ ret'.err = "ok") =>
       \A x \in {ret'.item} :
         /\ oid'[x] \notin ever
         /\ \A o \in ever : Val(oid'[x]) > Val(o)]_vars

\* The Item of oid 1 was added and removed; the next fresh add gave oid 2,
\* not 1 again.
C21_Witness ==
  /\ ret.op = "add_item" /\ ~ret.initial_load /\ ret.err = "ok"
  /\ oid[ret.item] = Int1(2)
  /\ ever = {Int1(1), Int1(2)}
  /\ Len(items) = 1

\* C22 as stated: an add_item that raises leaves the list state and every
\* Item's oid as they were.
C22_FailedAddFrame ==
  [][(ret'.op = "add_item" /\ ret'.err # "ok") =>
       (ListState' = ListState /\ oid' = oid)]_vars
====
